---- MODULE Spec2Model ----
(***************************************************************************)
(* State-machine model of src/server.js: the Express handlers of the       *)
(* recipe backend, the two store tables they touch (recipes, favorites)    *)
(* and the two image-extraction handlers.                                  *)
(*                                                                         *)
(* Every handler with a single await on the store is one atomic action     *)
(* (nothing else of the process is shared between requests); delete-recipe *)
(* awaits the store twice and is two actions, so other requests interleave *)
(* between its two store steps.  Every store call and every model call may *)
(* fail (the client returns an error / the call rejects).  The store       *)
(* enforces nothing that the source does not state: an insert adds a row.  *)
(***************************************************************************)
EXTENDS Integers, Sequences, FiniteSets, TLC

\* ------------------------------------------------------------ bounds
MaxFavRows  == 2   \* rows the favorites table may hold
MaxInFlight == 1   \* delete-recipe requests between their two store steps
MaxUploads  == 1   \* temporary upload files the disk may hold
MaxLen      == 3   \* length of a model completion, in characters

\* ------------------------------------------------------------ domains
NULL      == "null"           \* an absent (falsy) request field
Users     == {"u1", "u2"}
RecipeIds == {"r1", "r2"}     \* ids the store can assign, each at most once
Titles    == {"t1", "t2"}
NoRow     == [absent |-> TRUE]
\* what a store call reports: no error, or an error with its message
NoError     == "no error"
ErrorCauses == {"timeout", "permission denied"}
StoreErrors == {NoError} \cup ErrorCauses
Pairs     == Users \X RecipeIds
\* request bodies of the three favorites routes: a pair, or one with a field missing
FavInputs == Pairs \cup {<<NULL, "r1">>, <<"u1", NULL>>, <<NULL, NULL>>}

VARIABLES
    recipes,     \* recipes table: id -> row [user_id, title], or NoRow
    usedIds,     \* ids the store has assigned so far (never reused)
    favorites,   \* favorites table: <<user_id, recipe_id>> -> number of rows
    delPending,  \* delete-recipe requests past step 1: recipe id -> how many
    last,        \* the last request answered and its response
    tmpFiles,    \* files under uploads/ (multer's dest) that exist on disk
    completion   \* the text the model returned to the last request, if any

vars == <<recipes, usedIds, favorites, delPending, last, tmpFiles, completion>>
storeVars == <<recipes, usedIds, favorites, delPending>>
aiVars == <<tmpFiles, completion>>

\* ------------------------------------------------------------ helpers
RECURSIVE SumOver(_, _)
SumOver(f, S) ==
    IF S = {} THEN 0
    ELSE LET x == CHOOSE y \in S : TRUE IN f[x] + SumOver(f, S \ {x})

FavRows == SumOver(favorites, Pairs)
InFlight == SumOver(delPending, RecipeIds)

\* A response as the caller sees it (op, status, body) with what the request
\* was and did: the ids it named, whether a required input was missing,
\* whether a store or model call of it failed for a reason of its own (fault),
\* and how many store and model calls it made.  cause is the message of the
\* store error the request met, if any, query the search and tag filters of
\* a list request and rows the ids of the recipes a list response holds.
Resp(op, status, body, user, recipe, missing, fault, storeCalls, modelCalls) ==
    [op |-> op, status |-> status, body |-> body, user |-> user,
     recipe |-> recipe, missing |-> missing, fault |-> fault,
     storeCalls |-> storeCalls, modelCalls |-> modelCalls, sent |-> 1,
     cause |-> NoError, query |-> NULL, rows |-> {}]

\* The response of a request whose store call reported error: if (error) throw
\* error, answered by the catch block.
Thrown(resp, error) == [resp EXCEPT !.cause = error]

\* A handler run that threw outside every try block: no response is sent.
NoResp(op, modelCalls) ==
    [op |-> op, status |-> 0, body |-> "no response", user |-> NULL,
     recipe |-> NULL, missing |-> FALSE, fault |-> FALSE,
     storeCalls |-> 0, modelCalls |-> modelCalls, sent |-> 0,
     cause |-> NoError, query |-> NULL, rows |-> {}]

\* ------------------------------------------------------------ store operations
\* supabase.from('favorites').insert([{ user_id, recipe_id }])
StoreInsertFavorite(favs, u, r) ==
    [favs EXCEPT ![<<u, r>>] = @ + 1]

\* a delete that removes one matching row instead of every matching row
StoreDeleteFavorite_OneRow(favs, u, r) ==
    [favs EXCEPT ![<<u, r>>] = IF @ > 0 THEN @ - 1 ELSE 0]

\* supabase.from('favorites').delete().eq('user_id', u).eq('recipe_id', r)
StoreDeleteFavorite(favs, u, r) ==
    [favs EXCEPT ![<<u, r>>] = 0]

\* supabase.from('favorites').delete().eq('recipe_id', r)
StoreDeleteFavoritesOf(favs, r) ==
    [p \in Pairs |-> IF p[2] = r THEN 0 ELSE favs[p]]

\* .select('id').eq(...).eq(...).maybeSingle(): no row gives data null, one
\* row gives the row, more than one row gives an error
MultipleRows == "multiple rows returned"
MaybeSingle(n) ==
    IF n = 0 THEN [error |-> NoError, data |-> FALSE]
    ELSE IF n = 1 THEN [error |-> NoError, data |-> TRUE]
    ELSE [error |-> MultipleRows, data |-> FALSE]

\* supabase.from('recipes').insert([recipe]): the row holds the columns of
\* the recipe as the caller sent it; the store assigns the id
StoreInsertRecipe(recs, id, recipe) ==
    [recs EXCEPT ![id] = recipe]

\* an update that replaces the row: a column the caller left out is blanked
StoreUpdateRecipe_Replace(recs, id, fields) ==
    IF recs[id] = NoRow THEN recs
    ELSE [recs EXCEPT ![id] =
            [k \in DOMAIN recs[id] |->
                IF k \in DOMAIN fields THEN fields[k] ELSE NULL]]

\* supabase.from('recipes').update(fieldsToUpdate).eq('id', id)
StoreUpdateRecipe(recs, id, fields) ==
    IF recs[id] = NoRow THEN recs
    ELSE [recs EXCEPT ![id] =
            [k \in DOMAIN recs[id] |->
                IF k \in DOMAIN fields THEN fields[k] ELSE recs[id][k]]]

\* supabase.from('recipes').delete().eq('id', id)
StoreDeleteRecipe(recs, id) ==
    [recs EXCEPT ![id] = NoRow]

\* ------------------------------------------------------------ model completions
\* A completion is a string over three characters: the two braces of a JSON
\* object and "x", a character that is no JSON syntax (prose around the JSON).
Chars == {"{", "}", "x"}
Texts == UNION { [1..n -> Chars] : n \in 0..MaxLen }
NoText == <<"none">>          \* no completion was received
Rejected == <<"rejected">>    \* openai.chat.completions.create rejected
ModelOutcomes == {Rejected} \cup Texts

\* nesting depth after the first i characters of t
RECURSIVE Depth(_, _)
Depth(t, i) ==
    IF i = 0 THEN 0
    ELSE Depth(t, i - 1) + (IF t[i] = "{" THEN 1 ELSE IF t[i] = "}" THEN -1 ELSE 0)

\* JSON.parse(t) returns (does not throw): t is one object, scanned left to
\* right: it opens with a brace, the brace that closes it is its last
\* character, and nothing in it is foreign to JSON
JSONParse(t) ==
    /\ Len(t) >= 2
    /\ t[1] = "{"
    /\ \A i \in 1..Len(t) : t[i] # "x"
    /\ \A i \in 1..(Len(t) - 1) : Depth(t, i) > 0
    /\ Depth(t, Len(t)) = 0

\* text.match(/\{[\s\S]*\}/): from the first "{" to the last "}" after it
\* (the star is greedy), or null
MatchObject(t) ==
    LET opens == {i \in 1..Len(t) : t[i] = "{"}
        first == CHOOSE i \in opens : \A j \in opens : i <= j
        closes == {j \in 1..Len(t) : t[j] = "}" /\ j > first}
        lastClose == CHOOSE j \in closes : \A k \in closes : k <= j
    IN IF opens = {} \/ closes = {}
       THEN [found |-> FALSE, text |-> <<>>]
       ELSE [found |-> TRUE, text |-> SubSeq(t, first, lastClose)]

\* extracted = JSON.parse(text.match(/\{[\s\S]*\}/)[0]) does not throw
ExtractObject(t) ==
    LET m == MatchObject(t) IN m.found /\ JSONParse(m.text)

\* ------------------------------------------------------------ initial state
Init ==
    /\ recipes = [id \in RecipeIds |-> NoRow]
    /\ usedIds = {}
    /\ favorites = [p \in Pairs |-> 0]
    /\ delPending = [id \in RecipeIds |-> 0]
    /\ last = Resp("none", 0, "none", NULL, NULL, FALSE, FALSE, 0, 0)
    /\ tmpFiles = 0
    /\ completion = NoText

\* ------------------------------------------------------------ handlers
\* POST /favorite-recipe
FavoriteRecipe(user_id, recipe_id) ==
    /\ UNCHANGED <<recipes, usedIds, delPending>>
    /\ UNCHANGED aiVars
    /\ IF user_id = NULL \/ recipe_id = NULL
       THEN /\ last' = Resp("favorite", 400, "Missing user_id or recipe_id.",
                            user_id, recipe_id, TRUE, FALSE, 0, 0)
            /\ UNCHANGED favorites
       ELSE \E error \in StoreErrors :
              IF error # NoError
              THEN /\ last' = Thrown(Resp("favorite", 500, "Failed to favorite recipe.",
                                   user_id, recipe_id, FALSE, TRUE, 1, 0), error)
                   /\ UNCHANGED favorites
              ELSE /\ FavRows < MaxFavRows
                   /\ favorites' = StoreInsertFavorite(favorites, user_id, recipe_id)
                   /\ last' = Resp("favorite", 200, "success",
                                   user_id, recipe_id, FALSE, FALSE, 1, 0)

\* DELETE /favorite-recipe
UnfavoriteRecipe(user_id, recipe_id) ==
    /\ UNCHANGED <<recipes, usedIds, delPending>>
    /\ UNCHANGED aiVars
    /\ IF user_id = NULL \/ recipe_id = NULL
       THEN /\ last' = Resp("unfavorite", 400, "Missing user_id or recipe_id.",
                            user_id, recipe_id, TRUE, FALSE, 0, 0)
            /\ UNCHANGED favorites
       ELSE \E error \in StoreErrors :
              IF error # NoError
              THEN /\ last' = Thrown(Resp("unfavorite", 500, "Failed to unfavorite recipe.",
                                   user_id, recipe_id, FALSE, TRUE, 1, 0), error)
                   /\ UNCHANGED favorites
              ELSE /\ favorites' = StoreDeleteFavorite(favorites, user_id, recipe_id)
                   /\ last' = Resp("unfavorite", 200, "success",
                                   user_id, recipe_id, FALSE, FALSE, 1, 0)

\* POST /favorite-recipe-check, from the store call on: the response for
\* the rows the store holds; fault is an error the store call met for a
\* reason of its own
FavoriteCheckResponse(favs, user_id, recipe_id, fault) ==
    LET res == MaybeSingle(favs[<<user_id, recipe_id>>])
        error == IF fault # NoError THEN fault ELSE res.error
    IN
    IF error # NoError
    THEN Thrown(Resp("favorite-check", 500, "Failed to check favorite status.",
                     user_id, recipe_id, FALSE, fault # NoError, 1, 0), error)
    ELSE Resp("favorite-check", 200,
              IF res.data THEN "isFavorited: true" ELSE "isFavorited: false",
              user_id, recipe_id, FALSE, FALSE, 1, 0)

\* POST /favorite-recipe-check
FavoriteRecipeCheck(user_id, recipe_id) ==
    /\ UNCHANGED <<recipes, usedIds, favorites, delPending>>
    /\ UNCHANGED aiVars
    /\ IF user_id = NULL \/ recipe_id = NULL
       THEN last' = Resp("favorite-check", 400, "Missing user_id or recipe_id.",
                         user_id, recipe_id, TRUE, FALSE, 0, 0)
       ELSE \E fault \in StoreErrors :
              last' = FavoriteCheckResponse(favorites, user_id, recipe_id, fault)

\* request bodies of POST /save-recipe: no recipe, or a recipe with or without title
NoRecipe == [absent |-> TRUE]
SaveInputs ==
    {NoRecipe} \cup [user_id : Users, title : Titles \cup {NULL}]

\* POST /save-recipe
SaveRecipe(recipe) ==
    /\ UNCHANGED <<favorites, delPending>>
    /\ UNCHANGED aiVars
    /\ IF recipe = NoRecipe \/ recipe.title = NULL
       THEN /\ last' = Resp("save-recipe", 400, "Invalid recipe.",
                            NULL, NULL, TRUE, FALSE, 0, 0)
            /\ UNCHANGED <<recipes, usedIds>>
       ELSE \E error \in StoreErrors :
              IF error # NoError
              THEN /\ last' = Thrown(Resp("save-recipe", 500, "Failed to save recipe.",
                                   recipe.user_id, NULL, FALSE, TRUE, 1, 0), error)
                   /\ UNCHANGED <<recipes, usedIds>>
              ELSE \E id \in RecipeIds \ usedIds :
                   /\ recipes' = StoreInsertRecipe(recipes, id, recipe)
                   /\ usedIds' = usedIds \cup {id}
                   /\ last' = Resp("save-recipe", 200, "success",
                                   recipe.user_id, id, FALSE, FALSE, 1, 0)

\* the rest of a PATCH /update-recipe body once id is taken out of it:
\* any subset of the columns, each with a new value
NewValue == [user_id |-> "u2", title |-> "t2"]
UpdateFields ==
    { [k \in D |-> NewValue[k]] : D \in SUBSET {"user_id", "title"} }

\* PATCH /update-recipe: const { id, ...fieldsToUpdate } = req.body
UpdateRecipe(id, fieldsToUpdate) ==
    /\ UNCHANGED <<usedIds, favorites, delPending>>
    /\ UNCHANGED aiVars
    /\ IF id = NULL
       THEN /\ last' = Resp("update-recipe", 400, "Recipe id is required.",
                            NULL, id, TRUE, FALSE, 0, 0)
            /\ UNCHANGED recipes
       ELSE \E error \in StoreErrors :
              IF error # NoError
              THEN /\ last' = Thrown(Resp("update-recipe", 500, "Failed to update recipe.",
                                   NULL, id, FALSE, TRUE, 1, 0), error)
                   /\ UNCHANGED recipes
              ELSE /\ recipes' = StoreUpdateRecipe(recipes, id, fieldsToUpdate)
                   /\ last' = Resp("update-recipe", 200, "success",
                                   NULL, id, FALSE, FALSE, 1, 0)

\* a delete-recipe that looks at favError only after it has deleted the
\* recipe row
DeleteRecipeFavorites_LateThrow(id) ==
    /\ UNCHANGED <<usedIds, favorites, delPending>>
    /\ UNCHANGED aiVars
    /\ IF id = NULL
       THEN /\ last' = Resp("delete-recipe", 400, "Recipe id is required.",
                            NULL, id, TRUE, FALSE, 0, 0)
            /\ UNCHANGED recipes
       ELSE \E favError \in ErrorCauses :
            /\ recipes' = StoreDeleteRecipe(recipes, id)
            /\ last' = Thrown(Resp("delete-recipe", 500, "Failed to delete recipe.",
                                   NULL, id, FALSE, TRUE, 2, 0), favError)

\* POST /delete-recipe, up to and including its first store call
\* (1. Delete from favorites)
DeleteRecipeFavorites(id) ==
    /\ UNCHANGED <<recipes, usedIds>>
    /\ UNCHANGED aiVars
    /\ IF id = NULL
       THEN /\ last' = Resp("delete-recipe", 400, "Recipe id is required.",
                            NULL, id, TRUE, FALSE, 0, 0)
            /\ UNCHANGED <<favorites, delPending>>
       ELSE \E favError \in StoreErrors :
              IF favError # NoError
              THEN /\ last' = Thrown(Resp("delete-recipe", 500, "Failed to delete recipe.",
                                   NULL, id, FALSE, TRUE, 1, 0), favError)
                   /\ UNCHANGED <<favorites, delPending>>
              ELSE /\ InFlight < MaxInFlight
                   /\ favorites' = StoreDeleteFavoritesOf(favorites, id)
                   /\ delPending' = [delPending EXCEPT ![id] = @ + 1]
                   /\ UNCHANGED last

\* POST /delete-recipe, its second store call (2. Delete from recipes) and
\* the response
DeleteRecipeRow(id) ==
    /\ delPending[id] > 0
    /\ delPending' = [delPending EXCEPT ![id] = @ - 1]
    /\ UNCHANGED <<usedIds, favorites>>
    /\ UNCHANGED aiVars
    /\ \E error \in StoreErrors :
         IF error # NoError
         THEN /\ last' = Thrown(Resp("delete-recipe", 500, "Failed to delete recipe.",
                              NULL, id, FALSE, TRUE, 2, 0), error)
              /\ UNCHANGED recipes
         ELSE /\ recipes' = StoreDeleteRecipe(recipes, id)
              /\ last' = Resp("delete-recipe", 200, "success",
                              NULL, id, FALSE, FALSE, 2, 0)

\* ------------------------------------------------------------ AI handlers
\* POST /ask-ai-chef.  recipe is absent (NULL), "full", or "bare": an object
\* without the ingredients or instructions arrays, on which building the
\* prompt throws before the try block is entered.
AskAiChef(question, recipe, modelOk) ==
    /\ UNCHANGED storeVars
    /\ UNCHANGED tmpFiles
    /\ completion' = NoText
    /\ IF question = NULL \/ recipe = NULL
       THEN last' = Resp("ask-ai-chef", 400, "Question and recipe are required.",
                         NULL, NULL, TRUE, FALSE, 0, 0)
       ELSE IF recipe = "bare"
       THEN last' = NoResp("ask-ai-chef", 0)
       ELSE IF ~modelOk
       THEN last' = Resp("ask-ai-chef", 500, "Failed to fetch response from AI.",
                         NULL, NULL, FALSE, TRUE, 0, 1)
       ELSE last' = Resp("ask-ai-chef", 200, "answer",
                         NULL, NULL, FALSE, FALSE, 0, 1)

\* POST /inspire-recipes
InspireRecipes(prompt, outcome) ==
    /\ UNCHANGED storeVars
    /\ UNCHANGED tmpFiles
    /\ IF prompt = NULL
       THEN /\ last' = Resp("inspire-recipes", 400, "Prompt is required.",
                            NULL, NULL, TRUE, FALSE, 0, 0)
            /\ completion' = NoText
       ELSE IF outcome = Rejected
       THEN /\ last' = Resp("inspire-recipes", 500,
                            "Failed to generate recipe inspiration.",
                            NULL, NULL, FALSE, TRUE, 0, 1)
            /\ completion' = NoText
       ELSE /\ completion' = outcome
            /\ IF ~JSONParse(outcome)
               THEN last' = Resp("inspire-recipes", 500, "Failed to parse AI response.",
                                 NULL, NULL, FALSE, FALSE, 0, 1)
               ELSE last' = Resp("inspire-recipes", 200, "recipes",
                                 NULL, NULL, FALSE, FALSE, 0, 1)

\* a parse failure that is swallowed: extracted stays {} and is sent
UploadOutcome_NoReturn(hasFile, outcome) ==
    IF ~hasFile
    THEN [resp |-> Resp("analyze-upload", 500, "Failed to analyze image.",
                        NULL, NULL, TRUE, FALSE, 0, 0),
          unlinked |-> FALSE]
    ELSE IF outcome = Rejected
    THEN [resp |-> Resp("analyze-upload", 500, "Failed to analyze image.",
                        NULL, NULL, FALSE, TRUE, 0, 1),
          unlinked |-> FALSE]
    ELSE [resp |-> Resp("analyze-upload", 200, "extracted",
                        NULL, NULL, FALSE, FALSE, 0, 1),
          unlinked |-> TRUE]

\* POST /analyze-recipe-image, upload variant, from req.file on: the response
\* and whether fs.unlinkSync(filePath) ran.  Without a file req.file.path
\* throws inside the try block.
UploadOutcome(hasFile, outcome) ==
    IF ~hasFile
    THEN [resp |-> Resp("analyze-upload", 500, "Failed to analyze image.",
                        NULL, NULL, TRUE, FALSE, 0, 0),
          unlinked |-> FALSE]
    ELSE IF outcome = Rejected
    THEN [resp |-> Resp("analyze-upload", 500, "Failed to analyze image.",
                        NULL, NULL, FALSE, TRUE, 0, 1),
          unlinked |-> FALSE]
    ELSE IF ~ExtractObject(outcome)
    THEN [resp |-> Resp("analyze-upload", 500, "Failed to parse AI response.",
                        NULL, NULL, FALSE, FALSE, 0, 1),
          unlinked |-> FALSE]
    ELSE [resp |-> Resp("analyze-upload", 200, "extracted",
                        NULL, NULL, FALSE, FALSE, 0, 1),
          unlinked |-> TRUE]

\* POST /analyze-recipe-image, upload variant: upload.single('file') writes
\* the file part, if there is one, under uploads/ before the handler runs
AnalyzeRecipeImageUpload(hasFile, outcome) ==
    LET out == UploadOutcome(hasFile, outcome) IN
    /\ UNCHANGED storeVars
    /\ hasFile => tmpFiles < MaxUploads
    /\ tmpFiles' = IF hasFile /\ ~out.unlinked THEN tmpFiles + 1 ELSE tmpFiles
    /\ completion' = IF hasFile /\ outcome # Rejected THEN outcome ELSE NoText
    /\ last' = out.resp

\* POST /analyze-recipe-image, base64 variant, from the body on
Base64Outcome(image, outcome) ==
    IF image = NULL
    THEN Resp("analyze-base64", 400, "Image data is required.",
              NULL, NULL, TRUE, FALSE, 0, 0)
    ELSE IF outcome = Rejected
    THEN Resp("analyze-base64", 500, "Failed to analyze recipe image.",
              NULL, NULL, FALSE, TRUE, 0, 1)
    ELSE IF ~JSONParse(outcome)
    THEN Resp("analyze-base64", 500, "Failed to parse recipe data from image.",
              NULL, NULL, FALSE, FALSE, 0, 1)
    ELSE Resp("analyze-base64", 200, "recipe",
              NULL, NULL, FALSE, FALSE, 0, 1)

\* POST /analyze-recipe-image, base64 variant
AnalyzeRecipeImageBase64(image, outcome) ==
    /\ UNCHANGED storeVars
    /\ UNCHANGED tmpFiles
    /\ completion' = IF image # NULL /\ outcome # Rejected THEN outcome ELSE NoText
    /\ last' = Base64Outcome(image, outcome)

\* ------------------------------------------------------------ list handlers
\* Titles, search strings and tag parameters of the list routes are texts,
\* character by character: letters in both cases, the two wildcards of a LIKE
\* pattern, and the comma that separates tags in the query string.
Lower(c) == IF c = "A" THEN "a" ELSE IF c = "B" THEN "b" ELSE c
ToLowerCase(s) == [i \in DOMAIN s |-> Lower(s[i])]

\* a query parameter that is present and not the empty string: if (search)
Given(x) == x # NULL /\ x # <<>>

\* s LIKE p without regard to case (Postgres ILIKE): "%" in the pattern stands
\* for any run of characters, "_" for any one character
RECURSIVE ILike(_, _)
ILike(s, p) ==
    IF p = <<>> THEN s = <<>>
    ELSE IF Head(p) = "%"
    THEN ILike(s, Tail(p)) \/ (s # <<>> /\ ILike(Tail(s), p))
    ELSE /\ s # <<>>
         /\ Head(p) = "_" \/ Lower(Head(s)) = Lower(Head(p))
         /\ ILike(Tail(s), Tail(p))

\* s.includes(x)
Includes(s, x) ==
    \E i \in 1..(Len(s) + 1) :
        i + Len(x) - 1 <= Len(s) /\ SubSeq(s, i, i + Len(x) - 1) = x

\* tag.split(','): the texts between the commas
RECURSIVE Split(_, _)
Split(s, cur) ==
    IF s = <<>> THEN {cur}
    ELSE IF Head(s) = "," THEN {cur} \cup Split(Tail(s), <<>>)
    ELSE Split(Tail(s), Append(cur, Head(s)))

\* the tag column of a row: null, or an array of tags
NullTag == [null |-> TRUE, items |-> {}]
TagArray(items) == [null |-> FALSE, items |-> items]

\* GET /api/recipes: the filters the query adds to the store's select.  A row
\* whose tag column is null does not overlap anything.
ByOwnerFilter(row, search, tag) ==
    /\ Given(search) => ILike(row.title, <<"%">> \o search \o <<"%">>)
    /\ Given(tag) => ~row.tag.null /\ row.tag.items \cap Split(tag, <<>>) # {}

\* GET /api/favorite-recipes: the two filter callbacks throw on a favorite
\* whose recipe is null (no recipe row) and on a recipe whose tag is null
SearchThrows(row, search) == Given(search) /\ row = NoRow
TagThrows(row, search, tag) ==
    /\ Given(tag)
    /\ row = NoRow \/ row.tag.null
FavoritesSearch(row, search) ==
    Given(search) => Includes(ToLowerCase(row.title), ToLowerCase(search))
FavoritesFilter(row, search, tag) ==
    /\ FavoritesSearch(row, search)
    /\ Given(tag) => \E g \in Split(tag, <<>>) : g \in row.tag.items

\* GET /api/recipes
ListRecipes(user_id, search, tag) ==
    /\ UNCHANGED storeVars
    /\ UNCHANGED aiVars
    /\ IF user_id = NULL
       THEN last' = [Resp("list-recipes", 400, "user_id is required",
                          user_id, NULL, TRUE, FALSE, 0, 0)
                       EXCEPT !.query = <<search, tag>>]
       ELSE \E error \in StoreErrors :
              IF error # NoError
              THEN last' = [Thrown(Resp("list-recipes", 500, error,
                                        user_id, NULL, FALSE, TRUE, 1, 0), error)
                              EXCEPT !.query = <<search, tag>>]
              ELSE last' = [Resp("list-recipes", 200, "recipes",
                                 user_id, NULL, FALSE, FALSE, 1, 0)
                              EXCEPT !.query = <<search, tag>>,
                                     !.rows = {id \in RecipeIds :
                                                 /\ recipes[id] # NoRow
                                                 /\ recipes[id].user_id = user_id
                                                 /\ ByOwnerFilter(recipes[id], search, tag)}]

\* GET /api/favorite-recipes: the favorites of the user with the recipe each
\* references (null where there is none), filtered in the handler.  A filter
\* callback that throws rejects the handler's promise: nothing is sent.
ListFavoriteRecipes(user_id, search, tag) ==
    LET favs == {r \in RecipeIds : user_id # NULL /\ favorites[<<user_id, r>>] > 0}
        searched == {r \in favs : FavoritesSearch(recipes[r], search)}
    IN
    /\ UNCHANGED storeVars
    /\ UNCHANGED aiVars
    /\ IF user_id = NULL
       THEN last' = [Resp("list-favorites", 400, "user_id is required",
                          user_id, NULL, TRUE, FALSE, 0, 0)
                       EXCEPT !.query = <<search, tag>>]
       ELSE \E error \in StoreErrors :
              IF error # NoError
              THEN last' = [Thrown(Resp("list-favorites", 500, error,
                                        user_id, NULL, FALSE, TRUE, 1, 0), error)
                              EXCEPT !.query = <<search, tag>>]
              ELSE IF \/ \E r \in favs : SearchThrows(recipes[r], search)
                      \/ \E r \in searched : TagThrows(recipes[r], search, tag)
              THEN last' = [NoResp("list-favorites", 0)
                              EXCEPT !.user = user_id, !.storeCalls = 1,
                                     !.query = <<search, tag>>]
              ELSE last' = [Resp("list-favorites", 200, "recipes",
                                 user_id, NULL, FALSE, FALSE, 1, 0)
                              EXCEPT !.query = <<search, tag>>,
                                     !.rows = {r \in favs :
                                                 IF recipes[r] = NoRow THEN TRUE
                                                 ELSE FavoritesFilter(recipes[r], search, tag)}]

\* What the list routes are asked in the model: titles and searches over
\* letters and wildcards, tag columns and tag parameters over two tags.
ListTitles == {<<"a">>, <<"A", "b">>}
Searches == {NULL, <<>>, <<"B">>, <<"_">>}
TagColumns == {NullTag, TagArray({<<"x">>})}
TagParams == {NULL, <<"y", ",", "x">>}
ListSaveInputs == [user_id : {"u1"}, title : ListTitles, tag : TagColumns]

\* ------------------------------------------------------------ nutrition
\* The nutrition_info a caller puts in a recipe: null, an array holding an
\* object, or one object; an object has some of the eight keys, each with a
\* value or with null.
NutritionKeys ==
    {"calories", "fat", "cholesterol", "sodium", "carbs", "fiber", "sugar", "protein"}
NullNutrition == [kind |-> "null", value |-> [k \in {} |-> NULL]]
FullNutrition == [kind |-> "object", value |-> [k \in NutritionKeys |-> "value"]]
NutritionValues ==
    { NullNutrition,
      FullNutrition,
      [kind |-> "array", value |-> [k \in NutritionKeys |-> "value"]],
      [kind |-> "object", value |-> [k \in NutritionKeys \ {"protein"} |-> "value"]],
      [kind |-> "object",
       value |-> [k \in NutritionKeys |-> IF k = "sugar" THEN NULL ELSE "value"]] }

\* request bodies of POST /save-recipe and PATCH /update-recipe that carry
\* nutrition_info
NutritionSaveInputs ==
    [user_id : {"u1"}, title : {"t1"}, nutrition_info : NutritionValues]
NutritionUpdateFields ==
    {[nutrition_info |-> v] : v \in NutritionValues} \cup {[title |-> "t2"]}

Next ==
    \/ \E p \in FavInputs : FavoriteRecipe(p[1], p[2])
    \/ \E p \in FavInputs : UnfavoriteRecipe(p[1], p[2])
    \/ \E p \in FavInputs : FavoriteRecipeCheck(p[1], p[2])
    \/ \E recipe \in SaveInputs : SaveRecipe(recipe)
    \/ \E id \in RecipeIds \cup {NULL}, f \in UpdateFields : UpdateRecipe(id, f)
    \/ \E id \in RecipeIds \cup {NULL} : DeleteRecipeFavorites(id)
    \/ \E id \in RecipeIds : DeleteRecipeRow(id)

Spec == Init /\ [][Next]_vars

\* The handlers that read or write the favorites table.
NextFavorites ==
    \/ \E p \in FavInputs : FavoriteRecipe(p[1], p[2])
    \/ \E p \in FavInputs : UnfavoriteRecipe(p[1], p[2])
    \/ \E p \in FavInputs : FavoriteRecipeCheck(p[1], p[2])
    \/ \E id \in RecipeIds \cup {NULL} : DeleteRecipeFavorites(id)
    \/ \E id \in RecipeIds : DeleteRecipeRow(id)

SpecFavorites == Init /\ [][NextFavorites]_vars

\* The handlers that write the recipes table, with favorite-recipe filling
\* the favorites table beside them.
NextRecipes ==
    \/ \E recipe \in SaveInputs : SaveRecipe(recipe)
    \/ \E id \in RecipeIds \cup {NULL}, f \in UpdateFields : UpdateRecipe(id, f)
    \/ \E id \in RecipeIds \cup {NULL} : DeleteRecipeFavorites(id)
    \/ \E id \in RecipeIds : DeleteRecipeRow(id)
    \/ \E p \in FavInputs : FavoriteRecipe(p[1], p[2])

SpecRecipes == Init /\ [][NextRecipes]_vars

\* The handlers that call the model, with save-recipe putting rows in the
\* recipes table beside them.  A request that never reaches the model is
\* drawn once, not once per model outcome.
NextAI ==
    \/ \E q \in {NULL, "q"}, r \in {NULL, "full", "bare"}, ok \in BOOLEAN :
         AskAiChef(q, r, ok)
    \/ \E o \in ModelOutcomes : InspireRecipes("p", o)
    \/ InspireRecipes(NULL, Rejected)
    \/ \E o \in ModelOutcomes : AnalyzeRecipeImageUpload(TRUE, o)
    \/ AnalyzeRecipeImageUpload(FALSE, Rejected)
    \/ \E o \in ModelOutcomes : AnalyzeRecipeImageBase64("img", o)
    \/ AnalyzeRecipeImageBase64(NULL, Rejected)
    \/ SaveRecipe([user_id |-> "u1", title |-> "t1"])

SpecAI == Init /\ [][NextAI]_vars

\* The two list routes, with save-recipe and favorite-recipe filling the
\* tables they read.
NextLists ==
    \/ \E u \in {"u1", NULL}, s \in Searches, g \in TagParams : ListRecipes(u, s, g)
    \/ \E u \in {"u1", NULL}, s \in Searches, g \in TagParams :
         ListFavoriteRecipes(u, s, g)
    \/ \E recipe \in ListSaveInputs : SaveRecipe(recipe)
    \/ \E r \in RecipeIds : FavoriteRecipe("u1", r)

SpecLists == Init /\ [][NextLists]_vars

\* save-recipe and update-recipe with caller-supplied nutrition_info.
NextNutrition ==
    \/ \E recipe \in NutritionSaveInputs \cup {NoRecipe} : SaveRecipe(recipe)
    \/ \E id \in RecipeIds \cup {NULL}, f \in NutritionUpdateFields :
         UpdateRecipe(id, f)

SpecNutrition == Init /\ [][NextNutrition]_vars

\* ------------------------------------------------------------ claims
FavoriteOk(l) == l.op = "favorite" /\ l.status = 200
UnfavoriteOk(l) == l.op = "unfavorite" /\ l.status = 200
SamePair(l, m) == l.user = m.user /\ l.recipe = m.recipe
RowsOf(favs, r) == SumOver([u \in Users |-> favs[<<u, r>>]], Users)

\* C1: in every reachable state the favorites table holds at most one row
\* for every pair (user_id, recipe_id), whatever favorite and unfavorite
\* requests have run and however they interleaved.
C1_AtMostOneRowPerPair ==
    \A p \in Pairs : favorites[p] <= 1

\* C2: when a completed favorite for a pair is followed by a second completed
\* favorite for the same pair, at most one row exists for the pair and the
\* favorite-check operation (no store fault) answers 200, isFavorited true.
C2_FavoriteTwiceIsFavorited ==
    [][(FavoriteOk(last) /\ FavoriteOk(last') /\ SamePair(last, last')
          /\ FavoriteRecipe(last'.user, last'.recipe))
        => LET chk == FavoriteCheckResponse(favorites', last'.user, last'.recipe, NoError)
           IN /\ favorites'[<<last'.user, last'.recipe>>] <= 1
              /\ chk.status = 200
              /\ chk.body = "isFavorited: true"]_vars

\* C3: when a completed favorite for a pair is followed by an unfavorite for
\* the same pair that meets no store fault, the unfavorite succeeds, no row is
\* left for the pair and the favorite-check operation answers 200,
\* isFavorited false; and an unfavorite that follows a completed unfavorite
\* of the same pair (and meets no store fault) succeeds and leaves the
\* favorites table as it was.
C3_UnfavoriteIdempotent ==
    [][/\ (FavoriteOk(last) /\ last'.op = "unfavorite" /\ ~last'.missing
            /\ ~last'.fault /\ SamePair(last, last')
            /\ UnfavoriteRecipe(last'.user, last'.recipe))
          => LET chk == FavoriteCheckResponse(favorites', last'.user, last'.recipe, NoError)
             IN /\ last'.status = 200
                /\ favorites'[<<last'.user, last'.recipe>>] = 0
                /\ chk.status = 200
                /\ chk.body = "isFavorited: false"
       /\ (UnfavoriteOk(last) /\ last'.op = "unfavorite" /\ ~last'.missing
            /\ ~last'.fault /\ SamePair(last, last')
            /\ UnfavoriteRecipe(last'.user, last'.recipe))
          => /\ last'.status = 200
             /\ favorites' = favorites]_vars

\* C3 witness: an unfavorite has succeeded on a pair that had been favorited
\* twice, and nothing is left of the pair.
C3_Witness ==
    /\ UnfavoriteOk(last)
    /\ favorites[<<last.user, last.recipe>>] = 0
    /\ \E p \in Pairs : favorites[p] > 0

\* C4: when delete-recipe, asked to delete an existing recipe, answers
\* success, the recipe row is gone and no favorites row has its recipe_id
\* (however many users had favorited it); and a recipe row is removed only by a
\* request that has already removed the favorites rows (its first store step
\* is done).
C4_DeleteLeavesNoFavorites ==
    [][/\ (last'.op = "delete-recipe" /\ last'.status = 200
            /\ DeleteRecipeRow(last'.recipe) /\ recipes[last'.recipe] # NoRow)
          => /\ recipes'[last'.recipe] = NoRow
             /\ RowsOf(favorites', last'.recipe) = 0
       /\ \A id \in RecipeIds :
            (recipes[id] # NoRow /\ recipes'[id] = NoRow) => delPending[id] > 0]_vars

\* C5: in every reachable state every favorites row references a recipe row
\* that exists.
C5_NoOrphanFavorite ==
    \A p \in Pairs : favorites[p] > 0 => recipes[p[2]] # NoRow

\* The columns a PATCH body supplied and the row they are merged into.
Merged(row, fields) ==
    [k \in DOMAIN row |-> IF k \in DOMAIN fields THEN fields[k] ELSE row[k]]

\* C6: a successful update-recipe for id overwrites exactly the supplied
\* columns of the row with that id and keeps every other column; the set of
\* row ids is unchanged, no other recipe row changes and no favorites row
\* changes (an id with no row changes nothing).
C6_UpdateIsPartialMerge ==
    [][(last'.op = "update-recipe" /\ last'.status = 200)
        => \A f \in UpdateFields :
             UpdateRecipe(last'.recipe, f)
             => /\ \A rid \in RecipeIds :
                     recipes'[rid] = IF rid = last'.recipe /\ recipes[rid] # NoRow
                                     THEN Merged(recipes[rid], f)
                                     ELSE recipes[rid]
                /\ {rid \in RecipeIds : recipes'[rid] # NoRow}
                     = {rid \in RecipeIds : recipes[rid] # NoRow}
                /\ favorites' = favorites]_vars

\* C6 witness: an update has succeeded on an existing row while another row
\* and a favorites row exist.
C6_Witness ==
    /\ last.op = "update-recipe" /\ last.status = 200
    /\ recipes[last.recipe] # NoRow
    /\ \E rid \in RecipeIds \ {last.recipe} : recipes[rid] # NoRow
    /\ \E p \in Pairs : favorites[p] > 0

\* C7: the user_id of a recipe row never changes while the row exists.
C7_OwnerImmutable ==
    [][\A id \in RecipeIds :
         (recipes[id] # NoRow /\ recipes'[id] # NoRow)
         => recipes'[id].user_id = recipes[id].user_id]_vars

\* C8: a request that lacks a required input is answered 400 without any
\* call to the model or to the store, and the store is left as it was.
C8_FailFast ==
    [][last'.missing
        => /\ last'.status = 400
           /\ last'.storeCalls = 0
           /\ last'.modelCalls = 0
           /\ recipes' = recipes
           /\ favorites' = favorites]_vars

\* C9: whenever the upload variant of analyze-recipe-image answers a request
\* that carried a file, the temporary file of that request is gone: the
\* files under uploads/ are the ones that were there before the request.
C9_TempFileReleased ==
    [][(last'.op = "analyze-upload" /\ ~last'.missing)
        => tmpFiles' = tmpFiles]_vars

\* What a JSON object is, by its grammar: an opening brace, any number of
\* objects, a closing brace.
RECURSIVE IsObject(_), IsObjects(_)
IsObject(t) ==
    /\ Len(t) >= 2
    /\ t[1] = "{"
    /\ t[Len(t)] = "}"
    /\ IsObjects(SubSeq(t, 2, Len(t) - 1))
IsObjects(s) ==
    \/ s = <<>>
    \/ \E k \in 1..Len(s) :
         IsObject(SubSeq(s, 1, k)) /\ IsObjects(SubSeq(s, k + 1, Len(s)))

\* A truncated response: a JSON object cut off before the braces that close it.
Truncated(t) ==
    LET d == Depth(t, Len(t)) IN
    d > 0 /\ IsObject(t \o [i \in 1..d |-> "}"])

\* No part of the text is a JSON object.
NoObjectIn(t) ==
    \A i, j \in 1..Len(t) : ~IsObject(SubSeq(t, i, j))

ParseFailure(l) ==
    /\ l.status = 500
    /\ l.sent = 1
    /\ l.body = IF l.op = "analyze-upload" THEN "Failed to parse AI response."
                ELSE "Failed to parse recipe data from image."

ImageStep(l, c) ==
    l.op \in {"analyze-upload", "analyze-base64"} /\ c # NoText

SameRequest(l, m) ==
    /\ l.op = m.op
    /\ l.user = m.user
    /\ l.recipe = m.recipe
    /\ l.query = m.query

\* What the caller receives of a response.
Visible(l) == <<l.sent, l.status, l.body, l.rows>>

\* C11: a store failure is answered generically.  When a request whose store
\* call failed is followed by the same request, on the same tables, whose
\* store call fails with another error message, the caller receives the same
\* response both times, and the response does not carry the message.
C11_StoreFailureIsGeneric ==
    [][(/\ last.cause \in ErrorCauses
        /\ last'.cause \in ErrorCauses
        /\ last'.cause # last.cause
        /\ SameRequest(last, last')
        /\ recipes' = recipes
        /\ favorites' = favorites)
        => /\ Visible(last') = Visible(last)
           /\ last'.body # last'.cause]_vars

\* A recipe passes the favorites-list filter when no filter callback throws
\* on it and both callbacks keep it.
PassesFavorites(row, search, tag) ==
    /\ ~SearchThrows(row, search)
    /\ ~TagThrows(row, search, tag)
    /\ FavoritesFilter(row, search, tag)

\* C12: for every recipe row the store holds, every search string and every
\* tag parameter, the row passes the filter of GET /api/favorite-recipes
\* exactly when it passes the filter of GET /api/recipes.
C12_SameFilterSemantics ==
    \A id \in RecipeIds :
        recipes[id] # NoRow
        => \A search \in Searches, tag \in TagParams :
             PassesFavorites(recipes[id], search, tag)
               <=> ByOwnerFilter(recipes[id], search, tag)

\* nutrition_info is one object that has every nutrition key with a value.
CompleteNutrition(row) ==
    /\ "nutrition_info" \in DOMAIN row
    /\ row.nutrition_info.kind = "object"
    /\ \A k \in NutritionKeys :
         /\ k \in DOMAIN row.nutrition_info.value
         /\ row.nutrition_info.value[k] # NULL

\* C13: in every reachable state every row of the recipes table has a
\* nutrition_info that is a single object (not an array) with all eight
\* nutrition keys present and non-null.
C13_NutritionComplete ==
    \A id \in RecipeIds : recipes[id] # NoRow => CompleteNutrition(recipes[id])

\* C14: when the store reports an error for the favorites delete of a
\* delete-recipe request, the request is answered with failure after that
\* one store call, its recipe deletion is never attempted, and the recipes
\* table and the favorites table are as they were.
C14_FavoritesErrorKeepsRecipe ==
    [][(/\ last'.op = "delete-recipe"
        /\ last'.cause \in ErrorCauses
        /\ last' # last
        /\ DeleteRecipeFavorites(last'.recipe))
        => /\ last'.status = 500
           /\ last'.sent = 1
           /\ last'.storeCalls = 1
           /\ recipes' = recipes
           /\ favorites' = favorites
           /\ delPending' = delPending]_vars

\* C14 witness: delete-recipe has answered failure after an error of its
\* favorites delete while the recipe row and a favorites row of it exist.
C14_Witness ==
    /\ last.op = "delete-recipe"
    /\ last.cause \in ErrorCauses
    /\ last.storeCalls = 1
    /\ last.status = 500
    /\ recipes[last.recipe] # NoRow
    /\ RowsOf(favorites, last.recipe) > 0

====
